---- MODULE Spec2Model ----
(***************************************************************************)
(* Model of the Autoparts ETL pipeline (src/data-pipeline.py, class        *)
(* AutopartsETL): extract -> transform -> load -> report against a         *)
(* relational store with the tables productos, inventario, categorias and  *)
(* proveedores.                                                            *)
(*                                                                         *)
(* Conventions                                                             *)
(*  - a DataFrame is [rows |-> sequence of records, columns |-> set of     *)
(*    column names]; a cell of a column the frame does not have holds NA   *)
(*    and is never read by the model without a column test (the code       *)
(*    raises KeyError there);                                              *)
(*  - Python's None is the string "None";                                  *)
(*  - prices are integers in cents, the profit margin is an integer in     *)
(*    hundredths of a percent;                                             *)
(*  - identifiers keep the Spanish names of the source; accents are        *)
(*    dropped ('CRITICO' is the source's 'CRÍTICO');                       *)
(*  - the store has a committed state (db) and the open connection's       *)
(*    uncommitted view (tx): psycopg2 opens a transaction on the first     *)
(*    statement and only commit() publishes it;                            *)
(*  - CURRENT_TIMESTAMP is the number of the pipeline run (corrida).       *)
(***************************************************************************)
EXTENDS Integers, Sequences, FiniteSets, TLC

VARIABLES
    pc,                     \* position inside run_etl_pipeline / load_to_database
    corrida,                \* number of the current pipeline run (0 before the first)
    fases,                  \* phases entered by the current run, in order
    conn,                   \* self.connection: "None", "open" or "closed"
    categorias,             \* lookup table categorias: set of <<id, nombre>>
    proveedores,            \* lookup table proveedores: set of <<id, nombre>>
    db,                     \* committed store: [productos, inventario]
    tx,                     \* the connection's view of the store (uncommitted)
    db_inicio,              \* committed store when the current load started
    carga_previa,           \* last load an earlier run committed: its frame and the store it left, or None
    raw_df,                 \* result of extract_inventory_data, or "None"
    transformed_df,         \* result of transform_product_data, or "None"
    categorias_map,         \* load_to_database: nombre -> id
    proveedores_map,        \* load_to_database: nombre -> id
    idx,                    \* load_to_database: 1-based position of the loop
    productos_procesados,   \* load_to_database: counter "nuevos"
    productos_actualizados, \* load_to_database: counter "actualizados"
    success,                \* return value of load_to_database, or "None"
    reporte,                \* return value of generate_stock_report, or "None"
    resultado,              \* return value of run_etl_pipeline, or "None"
    log,                    \* log lines of the current run (set of <<level, event, arg>>)
    sentencias              \* statements the store has executed for the current run, in order

vars == <<pc, corrida, fases, conn, categorias, proveedores, db, tx, db_inicio,
          carga_previa,
          raw_df, transformed_df, categorias_map, proveedores_map, idx,
          productos_procesados, productos_actualizados, success, reporte,
          resultado, log, sentencias>>

None == "None"                \* Python's None where the value is a string
NoneObj == [none |-> TRUE]    \* Python's None where the value is a frame or a list
NA == "NA"

(***************************************************************************)
(* Bounds of the model.                                                    *)
(***************************************************************************)
MaxRuns == 2        \* pipeline runs in one behaviour
MaxBatch == 2       \* rows of a CSV file
MaxFilas == 3       \* rows of a frame given to the transform alone
MaxStock == 4       \* largest stock_actual given to the transform alone
MaxMin == 2         \* largest stock_minimo given to the transform alone

(***************************************************************************)
(* Columns and rows.                                                       *)
(***************************************************************************)
ColumnasNumericas == {"precio_compra", "precio_venta", "stock_actual",
                      "stock_minimo", "stock_maximo"}

ColumnasTexto == {"sku", "nombre", "numero_parte", "categoria", "proveedor",
                  "ubicacion"}

Columnas == ColumnasNumericas \cup ColumnasTexto

\* the columns of the sample data: every column except stock_maximo
ColumnasEjemplo == Columnas \ {"stock_maximo"}

Ausente(c) == IF c \in ColumnasNumericas THEN -1 ELSE NA

Fila(sku, nom, parte, cat, pcompra, pventa, prov, actual, minimo, ubic, maximo) ==
    [sku |-> sku, nombre |-> nom, numero_parte |-> parte, categoria |-> cat,
     precio_compra |-> pcompra, precio_venta |-> pventa, proveedor |-> prov,
     stock_actual |-> actual, stock_minimo |-> minimo, ubicacion |-> ubic,
     stock_maximo |-> maximo]

\* a row as a frame with the columns cols holds it
Proyectar(fila, cols) ==
    [c \in Columnas |-> IF c \in cols THEN fila[c] ELSE Ausente(c)]

DataFrame(filas, cols) ==
    [rows |-> [i \in 1..Len(filas) |-> Proyectar(filas[i], cols)],
     columns |-> cols]

\* the fixed sample of extract_inventory_data('sample')
sample_data ==
    << Fila("AP001", "Filtro Aceite Toyota Corolla", "FT-123", "Filtros",
            850, 1200, "AutoParts Supply", 25, 10, "A1-02", -1),
       Fila("AP002", "Pastillas Freno Delanteras Nissan", "PB-456", "Frenos",
            4500, 6500, "Brake Systems MX", 12, 5, "B2-15", -1),
       Fila("AP003", "Bateria 12V 60Ah Universal", "BAT-789", "Electrico",
            12000, 18000, "MotorTech", 8, 3, "C3-08", -1),
       Fila("AP004", "Aceite Motor 5W30 Sintetico", "OIL-012", "Lubricantes",
            1575, 2250, "AutoParts Supply", 45, 15, "A1-10", -1),
       Fila("AP005", "Amortiguadores Delanteros VW", "AMT-345", "Suspension",
            8500, 12500, "MotorTech", 15, 8, "B1-05", -1),
       Fila("AP006", "Bujias Iridio Standard", "BJI-678", "Motor",
            1250, 1875, "AutoParts Supply", 30, 12, "A2-12", -1) >>

\* rows a data/inventario.csv may hold: two versions of AP001 (one sold
\* below cost and out of stock), and a new part with an unknown category and
\* supplier and a purchase price of zero
FilasCSV ==
    { Fila("AP001", "Filtro Aire Honda Civic", "FT-999", "Motor",
           1000, 900, "MotorTech", 0, 10, "Z9-01", 50),
      Fila("AP001", "Filtro Aceite Toyota Corolla", "FT-123", "Filtros",
           850, 1200, "AutoParts Supply", 3, 4, "A1-02", 77),
      Fila("AP007", "Aceite Motor 5W30 Sintetico", "OIL-700", "Exotic",
           0, 2250, "Desconocido", 0, 0, "A1-11", 8) }

\* column sets a data/inventario.csv may have
ColumnasCSV ==
    { Columnas,
      Columnas \ {"sku"},
      Columnas \ {"sku", "stock_minimo"},
      Columnas \ {"nombre", "precio_venta"},
      ColumnasEjemplo \ {"numero_parte"},
      Columnas \ {"ubicacion"},
      Columnas \ {"categoria"} }

RECURSIVE Secuencias(_, _)
\* the sequences of 1..n elements of S
Secuencias(S, n) ==
    IF n = 0 THEN {}
    ELSE LET menores == Secuencias(S, n - 1)
         IN  {<<x>> : x \in S} \cup menores
             \cup {Append(s, x) : s \in menores, x \in S}

(***************************************************************************)
(* transform_product_data                                                  *)
(***************************************************************************)
\* drop_duplicates with keep='last'
drop_duplicates_last(filas) ==
    LET pares == SelectSeq([i \in 1..Len(filas) |-> <<i, filas[i]>>],
                           LAMBDA p : \A j \in (p[1] + 1)..Len(filas) :
                                         filas[j].sku # p[2].sku)
    IN  [k \in 1..Len(pares) |-> pares[k][2]]

\* DataFrame.drop_duplicates(subset=['sku'], keep='first'): a row stays when
\* no earlier row has its sku; the order of the rows that stay is kept
drop_duplicates(filas) ==
    LET pares == SelectSeq([i \in 1..Len(filas) |-> <<i, filas[i]>>],
                           LAMBDA p : \A j \in 1..(p[1] - 1) : filas[j].sku # p[2].sku)
    IN  [k \in 1..Len(pares) |-> pares[k][2]]

\* transformed_df['sku'].duplicated().any()
duplicated_any(filas) ==
    \E i, j \in 1..Len(filas) : i < j /\ filas[i].sku = filas[j].sku

required_columns ==
    <<"sku", "nombre", "precio_compra", "precio_venta", "stock_actual",
      "stock_minimo">>

\* [col for col in required_columns if col not in transformed_df.columns]
missing_columns(cols) == SelectSeq(required_columns, LAMBDA c : c \notin cols)

(***************************************************************************)
(* IEEE 754 binary64 arithmetic, as the float64 columns of the frame carry *)
(* it.  A natural number of any size is a sequence of limbs, least         *)
(* significant first, without leading zero limbs; zero is <<>>.            *)
(***************************************************************************)
\* the limb base, 2^15
Base == 32768

\* the bits of a binary64 significand
Precision == 53

\* the significant bits of a quotient a division computes before it rounds
BitsCociente == 56

RECURSIVE Pow2(_)
Pow2(n) ==
    IF n = 0 THEN 1 ELSE 2 * Pow2(n - 1)

RECURSIVE BitsInt(_)
BitsInt(n) ==
    IF n = 0 THEN 0 ELSE 1 + BitsInt(n \div 2)

RECURSIVE BNorm(_)
BNorm(x) ==
    IF x = <<>> THEN <<>>
    ELSE IF x[Len(x)] = 0 THEN BNorm(SubSeq(x, 1, Len(x) - 1))
    ELSE x

RECURSIVE BFromInt(_)
BFromInt(n) ==
    IF n = 0 THEN <<>> ELSE <<n % Base>> \o BFromInt(n \div Base)

RECURSIVE BToInt(_)
BToInt(x) ==
    IF x = <<>> THEN 0 ELSE x[1] + Base * BToInt(Tail(x))

BBits(x) ==
    IF x = <<>> THEN 0 ELSE 15 * (Len(x) - 1) + BitsInt(x[Len(x)])

Resto(x) ==
    IF x = <<>> THEN <<>> ELSE Tail(x)

Limbo(x) ==
    IF x = <<>> THEN 0 ELSE x[1]

RECURSIVE BAddC(_, _, _)
BAddC(x, y, c) ==
    IF x = <<>> /\ y = <<>> THEN BFromInt(c)
    ELSE LET t == Limbo(x) + Limbo(y) + c
         IN  <<t % Base>> \o BAddC(Resto(x), Resto(y), t \div Base)

BAdd(x, y) ==
    BAddC(x, y, 0)

\* x - y - c for x >= y + c, before the leading zero limbs are dropped
RECURSIVE BSubC(_, _, _)
BSubC(x, y, c) ==
    IF x = <<>> THEN <<>>
    ELSE LET t == x[1] - Limbo(y) - c
         IN  IF t < 0 THEN <<t + Base>> \o BSubC(Tail(x), Resto(y), 1)
             ELSE <<t>> \o BSubC(Tail(x), Resto(y), 0)

BSub(x, y) ==
    BNorm(BSubC(x, y, 0))

\* -1, 0 or 1 as x and y agree from limb i + 1 upwards and x < y, x = y or
\* x > y on the limbs 1..i
RECURSIVE BCmpAt(_, _, _)
BCmpAt(x, y, i) ==
    IF i = 0 THEN 0
    ELSE IF x[i] < y[i] THEN -1
    ELSE IF x[i] > y[i] THEN 1
    ELSE BCmpAt(x, y, i - 1)

BCmp(x, y) ==
    IF Len(x) < Len(y) THEN -1
    ELSE IF Len(x) > Len(y) THEN 1
    ELSE BCmpAt(x, y, Len(x))

\* x * k + c for 0 <= k, c < Base
RECURSIVE BMulSmall(_, _, _)
BMulSmall(x, k, c) ==
    IF x = <<>> THEN BFromInt(c)
    ELSE LET t == x[1] * k + c
         IN  <<t % Base>> \o BMulSmall(Tail(x), k, t \div Base)

\* x * 2^n
RECURSIVE BShl(_, _)
BShl(x, n) ==
    IF x = <<>> \/ n = 0 THEN x
    ELSE IF n >= 15 THEN <<0>> \o BShl(x, n - 15)
    ELSE BNorm(BMulSmall(x, Pow2(n), 0))

\* the limbs 1..i of x divided by k, with the remainder rem of the limbs
\* above carried in; 0 < k < Base
RECURSIVE BDivSmallAt(_, _, _, _)
BDivSmallAt(x, k, i, rem) ==
    IF i = 0 THEN <<>>
    ELSE LET cur == rem * Base + x[i]
         IN  Append(BDivSmallAt(x, k, i - 1, cur % k), cur \div k)

\* floor(x / 2^n)
RECURSIVE BShr(_, _)
BShr(x, n) ==
    IF x = <<>> \/ n = 0 THEN x
    ELSE IF n >= 15 THEN BShr(Tail(x), n - 15)
    ELSE BNorm(BDivSmallAt(x, Pow2(n), Len(x), 0))

\* x rounded to a multiple of 2^n, ties to even, and divided by 2^n
BRoundShr(x, n) ==
    LET q == BShr(x, n)
        rem == BSub(x, BShl(q, n))
        c == BCmp(rem, BShl(<<1>>, n - 1))
    IN  IF c > 0 \/ (c = 0 /\ Limbo(q) % 2 = 1) THEN BAdd(q, <<1>>) ELSE q

\* the quotient q and remainder r of a division by d, carried on bit by bit
\* until the quotient has BitsCociente significant bits
RECURSIVE BDivStep(_, _, _)
BDivStep(q, r, d) ==
    IF BBits(q) >= BitsCociente THEN [q |-> q, r |-> r]
    ELSE LET r2 == BMulSmall(r, 2, 0)
         IN  IF BCmp(r2, d) >= 0
             THEN BDivStep(BMulSmall(q, 2, 1), BSub(r2, d), d)
             ELSE BDivStep(BMulSmall(q, 2, 0), r2, d)

\* A binary64 number is s * m * 2^e with s the sign, m a significand of
\* Precision bits and e the exponent; zero has m = <<>>.
FCero == [s |-> 1, m |-> <<>>, e |-> 0]

\* the binary64 number nearest to s * x * 2^e, ties to even
FRound(s, x, e) ==
    LET n == BBits(x) - Precision
    IN  IF x = <<>> THEN FCero
        ELSE IF n <= 0 THEN [s |-> s, m |-> BShl(x, -n), e |-> e + n]
        ELSE LET q == BRoundShr(x, n)
             IN  IF BBits(q) > Precision
                 THEN [s |-> s, m |-> BShr(q, 1), e |-> e + n + 1]
                 ELSE [s |-> s, m |-> q, e |-> e + n]

\* the binary64 number an integer is
FFromInt(n) ==
    IF n < 0 THEN FRound(-1, BFromInt(-n), 0) ELSE FRound(1, BFromInt(n), 0)

FNeg(x) ==
    [x EXCEPT !.s = -x.s]

\* x + y
FAdd(x, y) ==
    IF x.m = <<>> THEN y
    ELSE IF y.m = <<>> THEN x
    ELSE LET e == IF x.e < y.e THEN x.e ELSE y.e
             a == BShl(x.m, x.e - e)
             b == BShl(y.m, y.e - e)
             c == BCmp(a, b)
         IN  IF x.s = y.s THEN FRound(x.s, BAdd(a, b), e)
             ELSE IF c = 0 THEN FCero
             ELSE IF c > 0 THEN FRound(x.s, BSub(a, b), e)
             ELSE FRound(y.s, BSub(b, a), e)

\* x - y
FSub(x, y) ==
    FAdd(x, FNeg(y))

\* x / y for y # 0: BitsCociente significant bits of the quotient of the
\* significands (which lies between 1/2 and 2), the last one set when the
\* division leaves a remainder, then rounded
FDiv(x, y) ==
    IF x.m = <<>> THEN FCero
    ELSE LET mayor == BCmp(x.m, y.m) >= 0
             d == IF mayor THEN BDivStep(<<1>>, BSub(x.m, y.m), y.m)
                  ELSE BDivStep(<<>>, x.m, y.m)
             q == IF d.r # <<>> /\ Limbo(d.q) % 2 = 0 THEN BAdd(d.q, <<1>>) ELSE d.q
             bits == IF mayor THEN BitsCociente - 1 ELSE BitsCociente
         IN  FRound(x.s * y.s, q, x.e - y.e - bits)

\* x * 100
FMul100(x) ==
    FRound(x.s, BMulSmall(x.m, 100, 0), x.e)

\* numpy.rint: the integer nearest to x, ties to even
FRint(x) ==
    IF x.m = <<>> THEN 0
    ELSE IF x.e >= 0 THEN x.s * BToInt(BShl(x.m, x.e))
    ELSE x.s * BToInt(BRoundShr(x.m, -x.e))

\* the float64 a price of so many cents is: the decimal with two places,
\* as a literal or as read_csv parses it
Precio(centavos) ==
    FDiv(FFromInt(centavos), FFromInt(100))

\* Series.round(2), in hundredths: numpy multiplies by 10^2 and takes rint
\* (the division by 10^2 that follows gives the float64 nearest to that
\* many hundredths)
Round2(x) ==
    FRint(FMul100(x))

\* the margin of a record in float64, as the code computes it:
\* rint(((venta - compra) / compra * 100) * 100), each operation rounded
MargenFloat64(precio_compra, precio_venta) ==
    LET compra == Precio(precio_compra)
        venta == Precio(precio_venta)
    IN  Round2(FMul100(FDiv(FSub(venta, compra), compra)))

\* the exact quotient n / d, d > 0, lies halfway between two integers
Empate(n, d) ==
    2 * (n % d) = d

\* the integer nearest to the exact quotient n / d, d > 0, which is not
\* halfway between two integers
Cercano(n, d) ==
    IF 2 * (n % d) < d THEN n \div d ELSE n \div d + 1

\* ((precio_venta - precio_compra) / precio_compra * 100).round(2), in
\* hundredths of a percent; a float division by zero gives inf, -inf or nan.
\* The exact margin in hundredths is n / d below.  The float64 operations
\* (two prices, a difference, a quotient, two products) leave the float64
\* margin within 2^-52 * (10000 * (|compra| + |venta|) + 4 * |n|) / d of it.
\* An exact margin that is not halfway between two hundredths is at least
\* 1 / (2 * d) away from halfway, which is more than that for every |n|
\* below 2^31, so the float64 margin rounds to the hundredth nearest to the
\* exact one; an exact margin that is halfway rounds as its float64 value
\* does.
margen_ganancia(fila) ==
    LET n == (fila.precio_venta - fila.precio_compra) * 10000
        d == fila.precio_compra
    IN  IF d = 0
        THEN IF n > 0 THEN "inf" ELSE IF n < 0 THEN "-inf" ELSE "nan"
        ELSE IF d > 0
             THEN IF Empate(n, d) THEN MargenFloat64(fila.precio_compra, fila.precio_venta)
                  ELSE Cercano(n, d)
             ELSE IF Empate(-n, -d) THEN MargenFloat64(fila.precio_compra, fila.precio_venta)
                  ELSE Cercano(-n, -d)

\* categorizar_stock with the CRITICO bound exclusive
categorizar_stock_exclusivo(row) ==
    IF row.stock_actual = 0 THEN "SIN_STOCK"
    ELSE IF row.stock_actual < row.stock_minimo THEN "CRITICO"
    ELSE IF row.stock_actual <= row.stock_minimo * 2 THEN "BAJO"
    ELSE "NORMAL"

categorizar_stock(row) ==
    IF row.stock_actual = 0 THEN "SIN_STOCK"
    ELSE IF row.stock_actual <= row.stock_minimo THEN "CRITICO"
    ELSE IF row.stock_actual <= row.stock_minimo * 2 THEN "BAJO"
    ELSE "NORMAL"

\* transformed_df[transformed_df['precio_venta'] <= transformed_df['precio_compra']]
precios_invalidos(filas) ==
    SelectSeq(filas, LAMBDA f : f.precio_venta <= f.precio_compra)

\* the rows of the frame once deduplicated (lines 103-108)
Deduplicadas(df) ==
    IF duplicated_any(df.rows) THEN drop_duplicates(df.rows) ELSE df.rows

\* the exception the try block of transform_product_data raises (name and
\* argument), or <<>> when it raises none
TransformError(df) ==
    IF "sku" \notin df.columns THEN <<"KeyError", <<"sku">> >>
    ELSE IF missing_columns(df.columns) # <<>>
         THEN <<"ValueError", missing_columns(df.columns)>>
         ELSE <<>>

\* the frame transform_product_data returns, or "None"
\* a transform that rejects a frame holding a record with sale <= purchase
transform_product_data_estricto(df) ==
    IF TransformError(df) # <<>> \/ precios_invalidos(Deduplicadas(df)) # <<>> THEN NoneObj
    ELSE LET filas == Deduplicadas(df)
         IN  [rows |-> [i \in 1..Len(filas) |->
                          [c \in Columnas \cup {"margen_ganancia", "nivel_stock"} |->
                              IF c = "margen_ganancia" THEN margen_ganancia(filas[i])
                              ELSE IF c = "nivel_stock" THEN categorizar_stock(filas[i])
                              ELSE filas[i][c]]],
              columns |-> df.columns \cup {"margen_ganancia", "nivel_stock"}]

transform_product_data(df) ==
    IF TransformError(df) # <<>> THEN NoneObj
    ELSE LET filas == Deduplicadas(df)
         IN  [rows |-> [i \in 1..Len(filas) |->
                          [c \in Columnas \cup {"margen_ganancia", "nivel_stock"} |->
                              IF c = "margen_ganancia" THEN margen_ganancia(filas[i])
                              ELSE IF c = "nivel_stock" THEN categorizar_stock(filas[i])
                              ELSE filas[i][c]]],
              columns |-> df.columns \cup {"margen_ganancia", "nivel_stock"}]

\* the log lines transform_product_data writes
TransformLog(df) ==
    {<<"INFO", "transformando", <<>> >>}
    \cup (IF "sku" \in df.columns /\ duplicated_any(df.rows)
          THEN {<<"WARNING", "skus_duplicados", <<>> >>} ELSE {})
    \cup (IF TransformError(df) # <<>>
          THEN {<<"ERROR", "transformando", TransformError(df)>>}
          ELSE {<<"INFO", "transformacion_completada", <<>> >>}
               \cup (IF precios_invalidos(Deduplicadas(df)) # <<>>
                     THEN {<<"WARNING", "precios_invalidos",
                             <<Len(precios_invalidos(Deduplicadas(df)))>> >>}
                     ELSE {}))

(***************************************************************************)
(* The store.                                                              *)
(***************************************************************************)
TablaVacia == [k \in {} |-> 0]

AlmacenVacio == [productos |-> TablaVacia, inventario |-> TablaVacia]

\* a store loaded before the first run: AP001 inactive with its own
\* category, supplier, part number, warranty and maximum stock; AP009 active
\* and below its minimum; AP008 active without inventory row; AP010 active
\* and out of stock
AlmacenPrevio ==
    [productos |->
        [k \in {"AP001", "AP008", "AP009", "AP010"} |->
            IF k = "AP001"
            THEN [nombre |-> "Filtro Viejo", numero_parte |-> "OLD-1",
                  categoria_id |-> 5, proveedor_id |-> 2, precio_compra |-> 700,
                  precio_venta |-> 990, garantia_meses |-> 24, activo |-> FALSE,
                  updated_at |-> 0]
            ELSE IF k = "AP008"
            THEN [nombre |-> "Correa Distribucion", numero_parte |-> "CD-800",
                  categoria_id |-> 4, proveedor_id |-> 2, precio_compra |-> 2000,
                  precio_venta |-> 3100, garantia_meses |-> 12, activo |-> TRUE,
                  updated_at |-> 0]
            ELSE IF k = "AP009"
            THEN [nombre |-> "Bujias Iridio Standard", numero_parte |-> "BJI-900",
                  categoria_id |-> 5, proveedor_id |-> 1, precio_compra |-> 1250,
                  precio_venta |-> 1875, garantia_meses |-> 12, activo |-> TRUE,
                  updated_at |-> 0]
            ELSE [nombre |-> "Filtro Viejo", numero_parte |-> "OLD-2",
                  categoria_id |-> 1, proveedor_id |-> 1, precio_compra |-> 600,
                  precio_venta |-> 800, garantia_meses |-> 12, activo |-> TRUE,
                  updated_at |-> 0]],
     inventario |->
        [k \in {"AP001", "AP009", "AP010"} |->
            IF k = "AP001"
            THEN [stock_actual |-> 7, stock_minimo |-> 2, stock_maximo |-> 99,
                  ubicacion |-> "OLD-LOC", updated_at |-> 0]
            ELSE IF k = "AP009"
            THEN [stock_actual |-> 1, stock_minimo |-> 2, stock_maximo |-> 8,
                  ubicacion |-> "D4-01", updated_at |-> 0]
            ELSE [stock_actual |-> 0, stock_minimo |-> 3, stock_maximo |-> 12,
                  ubicacion |-> "D4-02", updated_at |-> 0]]]

AlmacenesIniciales == {AlmacenVacio, AlmacenPrevio}

\* contents of the lookup tables categorias and proveedores: <<id, nombre>>
TablasLookup ==
    { [categorias |-> {<<1, "Filtros">>, <<2, "Frenos">>, <<3, "Electrico">>,
                       <<4, "Lubricantes">>, <<5, "Suspension">>, <<6, "Motor">>},
       proveedores |-> {<<1, "AutoParts Supply">>, <<2, "Brake Systems MX">>,
                        <<3, "MotorTech">>}],
      [categorias |-> {<<0, "Filtros">>, <<1, "Frenos">>, <<2, "Electrico">>,
                       <<3, "Lubricantes">>, <<4, "Suspension">>, <<5, "Motor">>},
       proveedores |-> {<<0, "AutoParts Supply">>, <<1, "Brake Systems MX">>,
                        <<2, "MotorTech">>}] }

\* the ids of the rows of a lookup table that carry a name
IdsDe(tabla, nombre) ==
    {t[1] : t \in {u \in tabla : u[2] = nombre}}

\* the mappings that give each of the names one of the ids of its rows
RECURSIVE MapasDe(_, _)
MapasDe(tabla, nombres) ==
    IF nombres = {} THEN {TablaVacia}
    ELSE LET n == CHOOSE x \in nombres : TRUE
         IN  { [k \in DOMAIN f \cup {n} |-> IF k = n THEN i ELSE f[k]] :
               f \in MapasDe(tabla, nombres \ {n}), i \in IdsDe(tabla, n) }

\* {nombre: id for id, nombre in cursor.fetchall()}: a name gets the id of
\* the last of its rows, and the query fixes no order of the rows, so the
\* dict is any one of these
NombreAId(tabla) ==
    MapasDe(tabla, {t[2] : t \in tabla})

\* `not mapa.get(nombre)`: the name is no key, or its id is falsy (0)
NoEncontrado(mapa, nombre) ==
    IF nombre \in DOMAIN mapa THEN mapa[nombre] = 0 ELSE TRUE

\* the id written for a name (lines 169-178): mapa.get(nombre), or 1 when
\* that value is falsy
ResolverId(mapa, nombre) ==
    IF NoEncontrado(mapa, nombre) THEN 1 ELSE mapa[nombre]

\* the store's answer to the statement with ON CONFLICT (sku) DO UPDATE ...
\* RETURNING sku: one row is inserted or updated, so cursor.rowcount is 1
\* either way
Rowcount(tabla, sku) == 1

\* the product upsert overwriting every column on conflict
UpsertProductoTodo(tabla, row, cols, categoria_id, proveedor_id, ahora) ==
    [k \in DOMAIN tabla \cup {row.sku} |->
        IF k = row.sku
        THEN [nombre |-> row.nombre,
              numero_parte |-> IF "numero_parte" \in cols
                               THEN row.numero_parte ELSE "",
              categoria_id |-> categoria_id,
              proveedor_id |-> proveedor_id,
              precio_compra |-> row.precio_compra,
              precio_venta |-> row.precio_venta,
              garantia_meses |-> 12,
              activo |-> IF k \in DOMAIN tabla THEN tabla[k].activo ELSE TRUE,
              updated_at |-> ahora]
        ELSE tabla[k]]

\* INSERT INTO productos ... ON CONFLICT (sku) DO UPDATE SET nombre,
\* precio_compra, precio_venta, updated_at
\* a product statement that leaves the record's row as the only row
UpsertProductoReemplaza(tabla, row, cols, categoria_id, proveedor_id, ahora) ==
    [k \in {row.sku} |->
        [nombre |-> row.nombre,
         numero_parte |-> IF "numero_parte" \in cols THEN row.numero_parte ELSE "",
         categoria_id |-> categoria_id,
         proveedor_id |-> proveedor_id,
         precio_compra |-> row.precio_compra,
         precio_venta |-> row.precio_venta,
         garantia_meses |-> 12,
         activo |-> TRUE,
         updated_at |-> ahora]]

\* a product statement that updates a stored row and inserts nothing
UpsertProductoSoloActualiza(tabla, row, cols, categoria_id, proveedor_id, ahora) ==
    IF row.sku \in DOMAIN tabla
    THEN [tabla EXCEPT ![row.sku] =
            [@ EXCEPT !.nombre = row.nombre,
                      !.precio_compra = row.precio_compra,
                      !.precio_venta = row.precio_venta,
                      !.updated_at = ahora]]
    ELSE tabla

UpsertProducto(tabla, row, cols, categoria_id, proveedor_id, ahora) ==
    IF row.sku \in DOMAIN tabla
    THEN [tabla EXCEPT ![row.sku] =
            [@ EXCEPT !.nombre = row.nombre,
                      !.precio_compra = row.precio_compra,
                      !.precio_venta = row.precio_venta,
                      !.updated_at = ahora]]
    ELSE [k \in DOMAIN tabla \cup {row.sku} |->
            IF k = row.sku
            THEN [nombre |-> row.nombre,
                  numero_parte |-> IF "numero_parte" \in cols
                                   THEN row.numero_parte ELSE "",
                  categoria_id |-> categoria_id,
                  proveedor_id |-> proveedor_id,
                  precio_compra |-> row.precio_compra,
                  precio_venta |-> row.precio_venta,
                  garantia_meses |-> 12,
                  activo |-> TRUE,
                  updated_at |-> ahora]
            ELSE tabla[k]]

\* the inventory upsert overwriting stock_maximo on conflict as well
UpsertInventarioMaximo(tabla, row, cols, ahora) ==
    [k \in DOMAIN tabla \cup {row.sku} |->
        IF k = row.sku
        THEN [stock_actual |-> row.stock_actual,
              stock_minimo |-> row.stock_minimo,
              stock_maximo |-> IF "stock_maximo" \in cols
                               THEN row.stock_maximo
                               ELSE row.stock_minimo * 4,
              ubicacion |-> row.ubicacion,
              updated_at |-> ahora]
        ELSE tabla[k]]

\* the inventory upsert adding the record's stock to the stored stock on
\* conflict
UpsertInventarioAcumula(tabla, row, cols, ahora) ==
    IF row.sku \in DOMAIN tabla
    THEN [tabla EXCEPT ![row.sku] =
            [@ EXCEPT !.stock_actual = @ + row.stock_actual,
                      !.stock_minimo = row.stock_minimo,
                      !.ubicacion = row.ubicacion,
                      !.updated_at = ahora]]
    ELSE [k \in DOMAIN tabla \cup {row.sku} |->
            IF k = row.sku
            THEN [stock_actual |-> row.stock_actual,
                  stock_minimo |-> row.stock_minimo,
                  stock_maximo |-> IF "stock_maximo" \in cols
                                   THEN row.stock_maximo
                                   ELSE row.stock_minimo * 4,
                  ubicacion |-> row.ubicacion,
                  updated_at |-> ahora]
            ELSE tabla[k]]

\* INSERT INTO inventario ... ON CONFLICT (producto_sku) DO UPDATE SET
\* stock_actual, stock_minimo, ubicacion, updated_at
UpsertInventario(tabla, row, cols, ahora) ==
    IF row.sku \in DOMAIN tabla
    THEN [tabla EXCEPT ![row.sku] =
            [@ EXCEPT !.stock_actual = row.stock_actual,
                      !.stock_minimo = row.stock_minimo,
                      !.ubicacion = row.ubicacion,
                      !.updated_at = ahora]]
    ELSE [k \in DOMAIN tabla \cup {row.sku} |->
            IF k = row.sku
            THEN [stock_actual |-> row.stock_actual,
                  stock_minimo |-> row.stock_minimo,
                  stock_maximo |-> IF "stock_maximo" \in cols
                                   THEN row.stock_maximo
                                   ELSE row.stock_minimo * 4,
                  ubicacion |-> row.ubicacion,
                  updated_at |-> ahora]
            ELSE tabla[k]]

\* connection.commit(): the committed store becomes the connection's view
Commit(committed, view) == view

\* a rollback that leaves the connection's view as it is
RollbackSinEfecto(committed, view) == view

\* connection.rollback(): the connection's view becomes the committed store
Rollback(committed, view) == committed

(***************************************************************************)
(* generate_stock_report                                                   *)
(***************************************************************************)
\* the product names of the model in alphabetical order (ORDER BY p.nombre)
NombresOrdenados ==
    <<"Aceite Motor 5W30 Sintetico", "Amortiguadores Delanteros VW",
      "Bateria 12V 60Ah Universal", "Bujias Iridio Standard",
      "Correa Distribucion", "Filtro Aceite Toyota Corolla",
      "Filtro Aire Honda Civic", "Filtro Viejo",
      "Pastillas Freno Delanteras Nissan">>

Rango(nombre) == CHOOSE i \in 1..Len(NombresOrdenados) : NombresOrdenados[i] = nombre

\* CASE WHEN i.stock_actual = 0 ... END as estado
Estado(inv) ==
    IF inv.stock_actual = 0 THEN "SIN_STOCK"
    ELSE IF inv.stock_actual <= inv.stock_minimo THEN "CRITICO"
    ELSE "NORMAL"

\* the report's rows without the test of p.activo
FilasReporteInactivos(almacen) ==
    { [sku |-> k,
       nombre |-> almacen.productos[k].nombre,
       stock_actual |-> almacen.inventario[k].stock_actual,
       stock_minimo |-> almacen.inventario[k].stock_minimo,
       ubicacion |-> almacen.inventario[k].ubicacion,
       estado |-> IF almacen.inventario[k].stock_actual = 0 THEN "SIN_STOCK"
                  ELSE "CRITICO"] :
      k \in { j \in DOMAIN almacen.productos \cap DOMAIN almacen.inventario :
                almacen.inventario[j].stock_actual <= almacen.inventario[j].stock_minimo } }

\* FROM productos p JOIN inventario i ON p.sku = i.producto_sku
\* WHERE i.stock_actual <= i.stock_minimo AND p.activo = true
FilasReporte(almacen) ==
    { [sku |-> k,
       nombre |-> almacen.productos[k].nombre,
       stock_actual |-> almacen.inventario[k].stock_actual,
       stock_minimo |-> almacen.inventario[k].stock_minimo,
       ubicacion |-> almacen.inventario[k].ubicacion,
       estado |-> Estado(almacen.inventario[k])] :
      k \in { j \in DOMAIN almacen.productos \cap DOMAIN almacen.inventario :
                /\ almacen.inventario[j].stock_actual <= almacen.inventario[j].stock_minimo
                /\ almacen.productos[j].activo } }

\* an ORDER BY i.stock_actual alone
AntesSoloStock(a, b) == a.stock_actual < b.stock_actual

\* ORDER BY i.stock_actual ASC, p.nombre: a comes strictly before b
Antes(a, b) ==
    \/ a.stock_actual < b.stock_actual
    \/ a.stock_actual = b.stock_actual /\ Rango(a.nombre) < Rango(b.nombre)

RECURSIVE Ordenes(_)
\* the lists the query may return for the set S of rows: every order that
\* respects ORDER BY (rows equal in both keys come in any order)
Ordenes(S) ==
    IF S = {} THEN {<<>>}
    ELSE UNION { {<<x>> \o resto : resto \in Ordenes(S \ {x})} :
                 x \in {y \in S : \A z \in S : ~Antes(z, y)} }

generate_stock_report(almacen) == Ordenes(FilasReporte(almacen))

(***************************************************************************)
(* extract_inventory_data                                                  *)
(***************************************************************************)
SourceTypes == {"sample", "csv", "xml"}

\* what data/inventario.csv may be: absent, unreadable, or a frame
Archivos ==
    { [existe |-> FALSE, legible |-> FALSE, df |-> NoneObj],
      [existe |-> TRUE, legible |-> FALSE, df |-> NoneObj] }
    \cup { [existe |-> TRUE, legible |-> TRUE, df |-> DataFrame(f, c)] :
           f \in Secuencias(FilasCSV, MaxBatch), c \in ColumnasCSV }

\* the frame extract_inventory_data returns, or None
extract_inventory_data(source_type, archivo) ==
    IF source_type = "sample" THEN DataFrame(sample_data, ColumnasEjemplo)
    ELSE IF source_type = "csv"
         THEN IF archivo.existe
              THEN IF archivo.legible THEN archivo.df ELSE NoneObj
              ELSE DataFrame(sample_data, ColumnasEjemplo)
         ELSE NoneObj

ExtractLog(source_type, archivo) ==
    {<<"INFO", "extrayendo", <<source_type>> >>}
    \cup (IF source_type = "csv" /\ ~archivo.existe
          THEN {<<"WARNING", "csv_no_encontrado", <<>> >>}
               \cup {<<"INFO", "extrayendo", <<"sample">> >>}
          ELSE {})
    \cup (IF source_type = "csv" /\ archivo.existe /\ ~archivo.legible
          THEN {<<"ERROR", "extrayendo", <<>> >>} ELSE {})
    \cup (IF source_type \notin {"sample", "csv"}
          THEN {<<"ERROR", "fuente_no_soportada", <<>> >>} ELSE {})

(***************************************************************************)
(* run_etl_pipeline: what runs after each phase                            *)
(***************************************************************************)
\* if raw_data is None: return False
TrasExtract(raw) == IF raw = NoneObj THEN "finally" ELSE "transform"

\* if transformed_data is None: return False
TrasTransform(transformed) ==
    IF transformed = NoneObj THEN "finally" ELSE "load_lookup"

\* the report phase entered whatever the load returned
TrasLoadSiempreReporta(ok) == "report"

\* if success: ... generate_stock_report() ... return success
TrasLoad(ok) == IF ok = "True" THEN "report" ELSE "finally"

\* a run that fails when the report yields nothing
ResultadoSegunReporte(ok, rep) == IF rep = NoneObj THEN "False" ELSE ok

\* return success (line 327): the report's result plays no part
ResultadoPipeline(ok, rep) == ok

\* a finally block that leaves the connection open
CerrarNunca(c) == c

\* finally: if self.connection: self.connection.close()
Cerrar(c) == IF c # None THEN "closed" ELSE c

(***************************************************************************)
(* The state machine.                                                      *)
(***************************************************************************)
Init ==
    /\ pc = "inicio"
    /\ corrida = 0
    /\ fases = <<>>
    /\ conn = None
    /\ \E t \in TablasLookup :
          /\ categorias = t.categorias
          /\ proveedores = t.proveedores
    /\ db \in AlmacenesIniciales
    /\ tx = db
    /\ db_inicio = db
    /\ carga_previa = NoneObj
    /\ raw_df = NoneObj
    /\ transformed_df = NoneObj
    /\ categorias_map = TablaVacia
    /\ proveedores_map = TablaVacia
    /\ idx = 0
    /\ productos_procesados = 0
    /\ productos_actualizados = 0
    /\ success = None
    /\ reporte = NoneObj
    /\ resultado = None
    /\ log = {}
    /\ sentencias = <<>>

\* run_etl_pipeline starts (lines 276-283): connect_database succeeds
ConnectOk ==
    /\ pc \in {"inicio", "fin"}
    /\ corrida < MaxRuns
    /\ corrida' = corrida + 1
    /\ fases' = <<"connect">>
    /\ conn' = "open"
    /\ tx' = db
    /\ db_inicio' = db
    /\ carga_previa' = IF \E i \in 1..Len(sentencias) : sentencias[i] = <<"commit", 0>>
                       THEN [df |-> transformed_df, db |-> db]
                       ELSE carga_previa
    /\ raw_df' = NoneObj
    /\ transformed_df' = NoneObj
    /\ categorias_map' = TablaVacia
    /\ proveedores_map' = TablaVacia
    /\ idx' = 0
    /\ productos_procesados' = 0
    /\ productos_actualizados' = 0
    /\ success' = None
    /\ reporte' = NoneObj
    /\ resultado' = None
    /\ log' = {<<"INFO", "iniciando", <<>> >>, <<"INFO", "conexion_establecida", <<>> >>}
    /\ pc' = "extract"
    /\ sentencias' = <<>>
    /\ UNCHANGED <<categorias, proveedores, db>>

\* run_etl_pipeline starts (lines 276-283): psycopg2.connect raises, the run
\* returns False; self.connection keeps the value it had
ConnectFail ==
    /\ pc \in {"inicio", "fin"}
    /\ corrida < MaxRuns
    /\ corrida' = corrida + 1
    /\ fases' = <<"connect">>
    /\ tx' = db
    /\ db_inicio' = db
    /\ carga_previa' = IF \E i \in 1..Len(sentencias) : sentencias[i] = <<"commit", 0>>
                       THEN [df |-> transformed_df, db |-> db]
                       ELSE carga_previa
    /\ raw_df' = NoneObj
    /\ transformed_df' = NoneObj
    /\ categorias_map' = TablaVacia
    /\ proveedores_map' = TablaVacia
    /\ idx' = 0
    /\ productos_procesados' = 0
    /\ productos_actualizados' = 0
    /\ success' = None
    /\ reporte' = NoneObj
    /\ resultado' = "False"
    /\ log' = {<<"INFO", "iniciando", <<>> >>, <<"ERROR", "conectando", <<>> >>}
    /\ pc' = "fin"
    /\ sentencias' = <<>>
    /\ UNCHANGED <<conn, categorias, proveedores, db>>

\* FASE 1 (lines 287-290)
Extract ==
    /\ pc = "extract"
    /\ \E source_type \in SourceTypes :
       \E archivo \in IF source_type = "csv" THEN Archivos
                      ELSE {[existe |-> FALSE, legible |-> FALSE, df |-> NoneObj]} :
          /\ raw_df' = extract_inventory_data(source_type, archivo)
          /\ log' = log \cup ExtractLog(source_type, archivo)
    /\ fases' = Append(fases, "extract")
    /\ pc' = TrasExtract(raw_df')
    /\ resultado' = IF raw_df' = NoneObj THEN "False" ELSE resultado
    /\ UNCHANGED <<sentencias, carga_previa, corrida, conn, categorias, proveedores, db, tx, db_inicio,
                   transformed_df, categorias_map, proveedores_map, idx,
                   productos_procesados, productos_actualizados, success, reporte>>

\* FASE 2 (lines 293-296)
Transform ==
    /\ pc = "transform"
    /\ transformed_df' = transform_product_data(raw_df)
    /\ log' = log \cup TransformLog(raw_df)
    /\ fases' = Append(fases, "transform")
    /\ pc' = TrasTransform(transformed_df')
    /\ resultado' = IF transformed_df' = NoneObj THEN "False" ELSE resultado
    /\ UNCHANGED <<sentencias, carga_previa, corrida, conn, categorias, proveedores, db, tx, db_inicio,
                   raw_df, categorias_map, proveedores_map, idx,
                   productos_procesados, productos_actualizados, success, reporte>>

(***************************************************************************)
(* load_to_database, one store statement per step                          *)
(***************************************************************************)
Row == transformed_df.rows[idx]

Cols == transformed_df.columns

\* the warnings of lines 172-178 for the row
AvisosLookup(row) ==
    (IF NoEncontrado(categorias_map, row.categoria)
     THEN {<<"WARNING", "categoria_no_encontrada", <<row.sku, row.categoria>> >>}
     ELSE {})
    \cup (IF NoEncontrado(proveedores_map, row.proveedor)
          THEN {<<"WARNING", "proveedor_no_encontrado", <<row.sku, row.proveedor>> >>}
          ELSE {})

\* where the loop goes after the inventory statement of row i
TrasFila(i) ==
    IF i >= Len(transformed_df.rows) THEN "load_commit" ELSE "load_producto"

\* FASE 3 starts (lines 299-300, 150-165): both lookup tables are read
LoadLookup ==
    /\ pc = "load_lookup"
    /\ conn = "open"
    /\ fases' = Append(fases, "load")
    /\ db_inicio' = db
    /\ categorias_map' \in NombreAId(categorias)
    /\ proveedores_map' \in NombreAId(proveedores)
    /\ idx' = 1
    /\ productos_procesados' = 0
    /\ productos_actualizados' = 0
    /\ pc' = IF Len(transformed_df.rows) = 0 THEN "load_commit" ELSE "load_producto"
    /\ sentencias' = sentencias \o <<<<"select_categorias", 0>>, <<"select_proveedores", 0>> >>
    /\ UNCHANGED <<carga_previa, corrida, conn, categorias, proveedores, db, tx, raw_df,
                   transformed_df, success, reporte, resultado, log>>

\* FASE 3 starts, and cursor(), an execute or a fetchall of lines 155-162
\* raises: before the first query, after it or after both
LoadLookupFail ==
    /\ pc = "load_lookup"
    /\ conn = "open"
    /\ fases' = Append(fases, "load")
    /\ db_inicio' = db
    /\ log' = log \cup {<<"ERROR", "cargando", <<"lookup", 0>> >>}
    /\ pc' = "load_except"
    /\ \E ejecutadas \in 0..2 :
          sentencias' = sentencias \o SubSeq(<<<<"select_categorias", 0>>,
                                               <<"select_proveedores", 0>> >>, 1, ejecutadas)
    /\ UNCHANGED <<carga_previa, corrida, conn, categorias, proveedores, db, tx, raw_df,
                   transformed_df, categorias_map, proveedores_map, idx,
                   productos_procesados, productos_actualizados, success,
                   reporte, resultado>>

\* lines 169-204: ids resolved, the product statement executes
LoadProducto ==
    /\ pc = "load_producto"
    /\ {"categoria", "proveedor"} \subseteq Cols
    /\ tx' = [tx EXCEPT !.productos =
                UpsertProducto(tx.productos, Row, Cols,
                               ResolverId(categorias_map, Row.categoria),
                               ResolverId(proveedores_map, Row.proveedor),
                               corrida)]
    /\ productos_procesados' =
          IF Rowcount(tx.productos, Row.sku) = 1
          THEN productos_procesados + 1 ELSE productos_procesados
    /\ productos_actualizados' =
          IF Rowcount(tx.productos, Row.sku) = 1
          THEN productos_actualizados ELSE productos_actualizados + 1
    /\ log' = log \cup AvisosLookup(Row)
    /\ pc' = "load_inventario"
    /\ sentencias' = Append(sentencias, <<"producto", idx>>)
    /\ UNCHANGED <<carga_previa, corrida, fases, conn, categorias, proveedores, db, db_inicio,
                   raw_df, transformed_df, categorias_map, proveedores_map, idx,
                   success, reporte, resultado>>

\* lines 169-170: the frame has no categoria or no proveedor column (KeyError)
LoadProductoKeyError ==
    /\ pc = "load_producto"
    /\ ~({"categoria", "proveedor"} \subseteq Cols)
    /\ log' = log \cup {<<"ERROR", "cargando", <<"KeyError", idx>> >>}
    /\ pc' = "load_except"
    /\ UNCHANGED <<sentencias, carga_previa, corrida, fases, conn, categorias, proveedores, db, tx,
                   db_inicio, raw_df, transformed_df, categorias_map,
                   proveedores_map, idx, productos_procesados,
                   productos_actualizados, success, reporte, resultado>>

\* lines 169-197: ids resolved, the product statement raises
LoadProductoFail ==
    /\ pc = "load_producto"
    /\ {"categoria", "proveedor"} \subseteq Cols
    /\ log' = log \cup AvisosLookup(Row)
                  \cup {<<"ERROR", "cargando", <<"producto", idx>> >>}
    /\ pc' = "load_except"
    /\ UNCHANGED <<sentencias, carga_previa, corrida, fases, conn, categorias, proveedores, db, tx,
                   db_inicio, raw_df, transformed_df, categorias_map,
                   proveedores_map, idx, productos_procesados,
                   productos_actualizados, success, reporte, resultado>>

\* lines 207-220: the inventory statement executes
LoadInventario ==
    /\ pc = "load_inventario"
    /\ "ubicacion" \in Cols
    /\ tx' = [tx EXCEPT !.inventario =
                UpsertInventario(tx.inventario, Row, Cols, corrida)]
    /\ idx' = idx + 1
    /\ pc' = TrasFila(idx)
    /\ sentencias' = Append(sentencias, <<"inventario", idx>>)
    /\ UNCHANGED <<carga_previa, corrida, fases, conn, categorias, proveedores, db, db_inicio,
                   raw_df, transformed_df, categorias_map, proveedores_map,
                   productos_procesados, productos_actualizados, success,
                   reporte, resultado, log>>

\* line 219: the frame has no ubicacion column (KeyError)
LoadInventarioKeyError ==
    /\ pc = "load_inventario"
    /\ "ubicacion" \notin Cols
    /\ log' = log \cup {<<"ERROR", "cargando", <<"KeyError", idx>> >>}
    /\ pc' = "load_except"
    /\ UNCHANGED <<sentencias, carga_previa, corrida, fases, conn, categorias, proveedores, db, tx,
                   db_inicio, raw_df, transformed_df, categorias_map,
                   proveedores_map, idx, productos_procesados,
                   productos_actualizados, success, reporte, resultado>>

\* lines 207-220: the inventory statement raises
LoadInventarioFail ==
    /\ pc = "load_inventario"
    /\ "ubicacion" \in Cols
    /\ log' = log \cup {<<"ERROR", "cargando", <<"inventario", idx>> >>}
    /\ pc' = "load_except"
    /\ UNCHANGED <<sentencias, carga_previa, corrida, fases, conn, categorias, proveedores, db, tx,
                   db_inicio, raw_df, transformed_df, categorias_map,
                   proveedores_map, idx, productos_procesados,
                   productos_actualizados, success, reporte, resultado>>

\* the value_counts() of nivel_stock (lines 228-230)
niveles_stock(filas) ==
    { <<n, Cardinality({i \in 1..Len(filas) : filas[i].nivel_stock = n})>> :
      n \in {filas[i].nivel_stock : i \in 1..Len(filas)} }

\* lines 222-232: commit, totals logged, load_to_database returns True
LoadCommit ==
    /\ pc = "load_commit"
    /\ db' = Commit(db, tx)
    /\ success' = "True"
    /\ log' = log \cup {<<"INFO", "datos_cargados",
                         <<productos_procesados, productos_actualizados>> >>}
                  \cup {<<"INFO", "nivel_stock", par>> :
                        par \in niveles_stock(transformed_df.rows)}
    /\ pc' = TrasLoad(success')
    /\ sentencias' = Append(sentencias, <<"commit", 0>>)
    /\ UNCHANGED <<carga_previa, corrida, fases, conn, categorias, proveedores, tx, db_inicio,
                   raw_df, transformed_df, categorias_map, proveedores_map, idx,
                   productos_procesados, productos_actualizados, reporte,
                   resultado>>

\* lines 222-223 and 234-235: commit executes and cursor.close() raises
\* inside the same try, so the except branch runs after the commit
LoadCloseFail ==
    /\ pc = "load_commit"
    /\ db' = Commit(db, tx)
    /\ log' = log \cup {<<"ERROR", "cargando", <<"close", 0>> >>}
    /\ pc' = "load_except"
    /\ sentencias' = Append(sentencias, <<"commit", 0>>)
    /\ UNCHANGED <<carga_previa, corrida, fases, conn, categorias, proveedores, tx,
                   db_inicio, raw_df, transformed_df, categorias_map,
                   proveedores_map, idx, productos_procesados,
                   productos_actualizados, success, reporte, resultado>>

\* line 222: commit raises
LoadCommitFail ==
    /\ pc = "load_commit"
    /\ log' = log \cup {<<"ERROR", "cargando", <<"commit", 0>> >>}
    /\ pc' = "load_except"
    /\ UNCHANGED <<sentencias, carga_previa, corrida, fases, conn, categorias, proveedores, db, tx,
                   db_inicio, raw_df, transformed_df, categorias_map,
                   proveedores_map, idx, productos_procesados,
                   productos_actualizados, success, reporte, resultado>>

\* lines 234-237 and 324-327: rollback, load_to_database returns False and
\* so does the run
LoadRollback ==
    /\ pc = "load_except"
    /\ tx' = Rollback(db, tx)
    /\ success' = "False"
    /\ resultado' = "False"
    /\ log' = log \cup {<<"ERROR", "pipeline_fallo_en_carga", <<>> >>}
    /\ pc' = TrasLoad(success')
    /\ sentencias' = Append(sentencias, <<"rollback", 0>>)
    /\ UNCHANGED <<carga_previa, corrida, fases, conn, categorias, proveedores, db, db_inicio,
                   raw_df, transformed_df, categorias_map, proveedores_map, idx,
                   productos_procesados, productos_actualizados, reporte>>

\* line 236 and 329-331: rollback raises, the exception leaves
\* load_to_database and the run returns False
LoadRollbackFail ==
    /\ pc = "load_except"
    /\ resultado' = "False"
    /\ log' = log \cup {<<"ERROR", "error_critico", <<>> >>}
    /\ pc' = "finally"
    /\ UNCHANGED <<sentencias, carga_previa, corrida, fases, conn, categorias, proveedores, db, tx,
                   db_inicio, raw_df, transformed_df, categorias_map,
                   proveedores_map, idx, productos_procesados,
                   productos_actualizados, success, reporte>>

(***************************************************************************)
(* FASE 4 and the end of the run                                           *)
(***************************************************************************)
\* the summary lines 313-322
ResumenLog(rep) ==
    IF rep # NoneObj /\ rep.rows # <<>>
    THEN {<<"INFO", "stock_critico", <<Len(rep.rows)>> >>}
    ELSE {<<"INFO", "sin_stock_critico", <<>> >>}

\* lines 303-327: the report query answers
ReportOk ==
    /\ pc = "report"
    /\ conn = "open"
    /\ fases' = Append(fases, "report")
    /\ \E filas \in generate_stock_report(tx) : reporte' = [rows |-> filas]
    /\ resultado' = ResultadoPipeline(success, reporte')
    /\ log' = log \cup {<<"INFO", "completado", <<>> >>} \cup ResumenLog(reporte')
    /\ pc' = "finally"
    /\ sentencias' = Append(sentencias, <<"select_reporte", 0>>)
    /\ UNCHANGED <<carga_previa, corrida, conn, categorias, proveedores, db, tx, db_inicio,
                   raw_df, transformed_df, categorias_map, proveedores_map, idx,
                   productos_procesados, productos_actualizados, success>>

\* lines 303-327 and 268-270: cursor() or the report query raises before the
\* query has executed, or fetchall() or cursor.close() raises after it
ReportFail ==
    /\ pc = "report"
    /\ conn = "open"
    /\ fases' = Append(fases, "report")
    /\ reporte' = NoneObj
    /\ resultado' = ResultadoPipeline(success, reporte')
    /\ log' = log \cup {<<"ERROR", "generando_reporte", <<>> >>,
                        <<"INFO", "completado", <<>> >>}
                  \cup ResumenLog(reporte')
    /\ pc' = "finally"
    /\ \E ejecutada \in BOOLEAN :
          sentencias' = IF ejecutada THEN Append(sentencias, <<"select_reporte", 0>>)
                        ELSE sentencias
    /\ UNCHANGED <<carga_previa, corrida, conn, categorias, proveedores, db, tx, db_inicio,
                   raw_df, transformed_df, categorias_map, proveedores_map, idx,
                   productos_procesados, productos_actualizados, success>>

\* lines 332-335: the connection is closed; what it had not committed is gone
Finally ==
    /\ pc = "finally"
    /\ conn' = Cerrar(conn)
    /\ tx' = db
    /\ log' = log \cup (IF conn # None THEN {<<"INFO", "conexion_cerrada", <<>> >>}
                        ELSE {})
    /\ pc' = "fin"
    /\ UNCHANGED <<sentencias, carga_previa, corrida, fases, categorias, proveedores, db, db_inicio,
                   raw_df, transformed_df, categorias_map, proveedores_map, idx,
                   productos_procesados, productos_actualizados, success,
                   reporte, resultado>>

Next ==
    \/ ConnectOk
    \/ ConnectFail
    \/ Extract
    \/ Transform
    \/ LoadLookup
    \/ LoadLookupFail
    \/ LoadProducto
    \/ LoadProductoKeyError
    \/ LoadProductoFail
    \/ LoadInventario
    \/ LoadInventarioKeyError
    \/ LoadInventarioFail
    \/ LoadCommit
    \/ LoadCloseFail
    \/ LoadCommitFail
    \/ LoadRollback
    \/ LoadRollbackFail
    \/ ReportOk
    \/ ReportFail
    \/ Finally

Spec == Init /\ [][Next]_vars

(***************************************************************************)
(* The transform alone: run_etl_pipeline stands before FASE 2 with a frame *)
(* from a wider set than the main specification affords.                   *)
(***************************************************************************)
\* <<precio_compra, precio_venta>> of the one-row frames
PreciosT ==
    {<<850, 1200>>, <<1000, 900>>, <<500, 500>>, <<32, 33>>, <<64, 70>>,
     <<3200, 3300>>, <<4000, 7>>, <<0, 2250>>, <<0, 0>>}

\* one-row frames over every stock_actual, stock_minimo and price pair
FramesStock ==
    { DataFrame(<<Fila("AP001", "Filtro Aceite Toyota Corolla", "FT-123",
                       "Filtros", p[1], p[2], "AutoParts Supply", a, m,
                       "A1-02", -1)>>, ColumnasEjemplo) :
      a \in 0..MaxStock, m \in 0..MaxMin, p \in PreciosT }

\* frames of up to MaxFilas rows with repeated SKUs, over each column set
FramesDuplicados ==
    { DataFrame(f, c) :
      f \in Secuencias(FilasCSV \cup {sample_data[1], sample_data[2]}, MaxFilas),
      c \in ColumnasCSV }

InitTransform ==
    /\ pc = "transform"
    /\ corrida = 1
    /\ fases = <<"connect", "extract">>
    /\ conn = "open"
    /\ \E t \in TablasLookup :
          /\ categorias = t.categorias
          /\ proveedores = t.proveedores
    /\ db = AlmacenVacio
    /\ tx = db
    /\ db_inicio = db
    /\ carga_previa = NoneObj
    /\ raw_df \in FramesStock \cup FramesDuplicados
    /\ transformed_df = NoneObj
    /\ categorias_map = TablaVacia
    /\ proveedores_map = TablaVacia
    /\ idx = 0
    /\ productos_procesados = 0
    /\ productos_actualizados = 0
    /\ success = None
    /\ reporte = NoneObj
    /\ resultado = None
    /\ log = {<<"INFO", "iniciando", <<>> >>, <<"INFO", "conexion_establecida", <<>> >>,
              <<"INFO", "extrayendo", <<"csv">> >>}
    /\ sentencias = <<>>

SpecTransform == InitTransform /\ [][Transform]_vars

(***************************************************************************)
(* Properties of the transform.                                            *)
(***************************************************************************)
NivelesStock == {"SIN_STOCK", "CRITICO", "BAJO", "NORMAL"}

\* C7: every transformed record carries exactly one of the four stock levels,
\* decided by (stock_actual, stock_minimo) alone: 0 gives SIN_STOCK (also with
\* a minimum of 0), 0 < actual <= minimo gives CRITICO, minimo < actual <=
\* 2*minimo gives LOW (BAJO), anything else NORMAL; actual = minimo is
\* CRITICO and actual = 2*minimo is BAJO.
C7_StockLevel ==
    transformed_df # NoneObj =>
        \A i \in 1..Len(transformed_df.rows) :
            LET r == transformed_df.rows[i]
                a == r.stock_actual
                m == r.stock_minimo
            IN  /\ r.nivel_stock \in NivelesStock
                /\ (a = 0) <=> (r.nivel_stock = "SIN_STOCK")
                /\ (0 < a /\ a <= m) <=> (r.nivel_stock = "CRITICO")
                /\ (m < a /\ a <= 2 * m) <=> (r.nivel_stock = "BAJO")
                /\ (0 < a /\ a > m /\ a > 2 * m) <=> (r.nivel_stock = "NORMAL")

\* a transformed frame holds a row at each boundary: actual = minimo > 0 is
\* CRITICO, or actual = 2*minimo > 0 is BAJO
C7_Witness ==
    /\ transformed_df # NoneObj
    /\ Len(transformed_df.rows) = 1
    /\ transformed_df.rows[1].stock_actual = 2 * transformed_df.rows[1].stock_minimo
    /\ transformed_df.rows[1].stock_actual > 0
    /\ transformed_df.rows[1].nivel_stock = "BAJO"

\* the position of the first row of the frame with the SKU
PrimeraPosicion(filas, sku) ==
    CHOOSE i \in 1..Len(filas) :
        /\ filas[i].sku = sku
        /\ \A j \in 1..(i - 1) : filas[j].sku # sku

\* a transformed row without its derived fields
SinDerivados(fila) == [c \in Columnas |-> fila[c]]

\* C8: the transform's output holds each SKU of the input exactly once, the
\* row kept for a SKU is its first occurrence, the rows kept stay in input
\* order, and deduplicating the output again changes nothing.
C8_Dedup ==
    transformed_df # NoneObj =>
        LET entrada == raw_df.rows
            salida == transformed_df.rows
        IN  /\ \A i \in 1..Len(entrada) :
                  Cardinality({k \in 1..Len(salida) : salida[k].sku = entrada[i].sku}) = 1
            /\ \A k \in 1..Len(salida) :
                  /\ \E i \in 1..Len(entrada) : entrada[i].sku = salida[k].sku
                  /\ SinDerivados(salida[k]) = entrada[PrimeraPosicion(entrada, salida[k].sku)]
            /\ \A k, l \in 1..Len(salida) :
                  k < l => PrimeraPosicion(entrada, salida[k].sku)
                           < PrimeraPosicion(entrada, salida[l].sku)
            /\ Deduplicadas(transformed_df) = salida
            /\ transform_product_data([rows |-> [k \in 1..Len(salida) |-> SinDerivados(salida[k])],
                                       columns |-> raw_df.columns]) = transformed_df

\* three rows, the first and the last share a SKU and differ, two are kept
C8_Witness ==
    /\ transformed_df # NoneObj
    /\ Len(raw_df.rows) = 3
    /\ raw_df.rows[1].sku = raw_df.rows[3].sku
    /\ raw_df.rows[1] # raw_df.rows[3]
    /\ raw_df.rows[2].sku # raw_df.rows[1].sku
    /\ Len(transformed_df.rows) = 2

(***************************************************************************)
(* Properties of the load and of the run.                                  *)
(***************************************************************************)
\* the load has returned True in this run
CargaOk == success = "True" /\ pc \in {"report", "finally", "fin"}

\* the rows of the batch whose product statement has executed in tx
FilasConProducto ==
    IF pc = "load_inventario" THEN 1..idx
    ELSE IF pc \in {"load_producto", "load_commit"} THEN 1..(idx - 1)
    ELSE IF CargaOk THEN 1..Len(transformed_df.rows)
    ELSE {}

\* the rows of the batch whose inventory statement has executed in tx
FilasConInventario ==
    IF pc \in {"load_producto", "load_inventario", "load_commit"} THEN 1..(idx - 1)
    ELSE IF CargaOk THEN 1..Len(transformed_df.rows)
    ELSE {}

\* the log holds the error of a product or inventory statement of row k
FalloUpsert(k) ==
    \E e \in log :
        /\ e[1] = "ERROR"
        /\ e[2] = "cargando"
        /\ e[3][1] \in {"producto", "inventario", "KeyError"}
        /\ e[3][2] = k

\* C1: the load is all-or-nothing: when the product or inventory upsert of
\* the k-th record raises, nothing of the batch is ever committed, once
\* load_to_database has returned (False) the tables seen through the
\* connection are those of before the load, and so they are when the run
\* has returned; load_to_database never returns True and run_etl_pipeline
\* returns False.
C1_AllOrNothing ==
    transformed_df # NoneObj =>
        \A k \in 1..Len(transformed_df.rows) :
            FalloUpsert(k) =>
                /\ db = db_inicio
                /\ success # "True"
                /\ success = "False" => tx = db_inicio
                /\ pc = "fin" => tx = db_inicio
                /\ pc \in {"finally", "fin"} => resultado = "False"

\* the scenario of the spec: the 4th of 6 records raises after the first
\* three were written, the load has returned False and the run is over
C1_Witness ==
    /\ pc = "fin"
    /\ transformed_df # NoneObj
    /\ Len(transformed_df.rows) = 6
    /\ <<"ERROR", "cargando", <<"inventario", 4>> >> \in log
    /\ success = "False"
    /\ resultado = "False"
    /\ db = db_inicio

\* a table without its updated_at column
SinTiempoTabla(tabla) ==
    [k \in DOMAIN tabla |->
        [c \in DOMAIN tabla[k] \ {"updated_at"} |-> tabla[k][c]]]

\* a store, timestamps aside
SinTiempo(almacen) ==
    [productos |-> SinTiempoTabla(almacen.productos),
     inventario |-> SinTiempoTabla(almacen.inventario)]

\* this run's load committed the frame the previous committed load had,
\* onto the store that load left
SegundaCargaIdentica ==
    /\ CargaOk
    /\ carga_previa # NoneObj
    /\ carga_previa.df = transformed_df
    /\ carga_previa.db = db_inicio

\* C2: the load is idempotent on the store: when a (deduplicated) batch is
\* loaded a second time in a row, the products and inventory tables are,
\* timestamps aside, as the first load left them; in particular no stock_maximo
\* changes.
C2_LoadIdempotent ==
    SegundaCargaIdentica =>
        /\ SinTiempo(db) = SinTiempo(carga_previa.db)
        /\ \A k \in DOMAIN db.inventario :
              db.inventario[k].stock_maximo = carga_previa.db.inventario[k].stock_maximo

\* a batch of two or more rows loaded twice in a row; the second load
\* rewrote rows (their timestamps moved)
C2_Witness ==
    /\ SegundaCargaIdentica
    /\ Len(transformed_df.rows) >= 2
    /\ db # carga_previa.db

\* C3: the product upsert is asymmetric: for a record whose SKU was in
\* productos, nombre, precio_compra and precio_venta become the record's while
\* categoria_id, proveedor_id, numero_parte and garantia_meses stay as stored;
\* for a SKU that was not there, all of them are set from the record and the
\* resolved ids.
C3_ProductUpsert ==
    \A i \in FilasConProducto :
        LET row == transformed_df.rows[i]
            p == tx.productos[row.sku]
        IN  /\ p.nombre = row.nombre
            /\ p.precio_compra = row.precio_compra
            /\ p.precio_venta = row.precio_venta
            /\ IF row.sku \in DOMAIN db_inicio.productos
               THEN /\ p.categoria_id = db_inicio.productos[row.sku].categoria_id
                    /\ p.proveedor_id = db_inicio.productos[row.sku].proveedor_id
                    /\ p.numero_parte = db_inicio.productos[row.sku].numero_parte
                    /\ p.garantia_meses = db_inicio.productos[row.sku].garantia_meses
               ELSE /\ p.categoria_id = ResolverId(categorias_map, row.categoria)
                    /\ p.proveedor_id = ResolverId(proveedores_map, row.proveedor)
                    /\ p.numero_parte = (IF "numero_parte" \in Cols
                                         THEN row.numero_parte ELSE "")
                    /\ p.garantia_meses = 12

\* a record has just been written over a stored product that differs from it
\* in name, category, supplier, part number and warranty
C3_Witness ==
    /\ pc = "load_inventario"
    /\ Row.sku \in DOMAIN db_inicio.productos
    /\ "numero_parte" \in Cols
    /\ LET viejo == db_inicio.productos[Row.sku]
       IN  /\ viejo.nombre # Row.nombre
           /\ viejo.categoria_id # ResolverId(categorias_map, Row.categoria)
           /\ viejo.proveedor_id # ResolverId(proveedores_map, Row.proveedor)
           /\ viejo.numero_parte # Row.numero_parte
           /\ viejo.garantia_meses # 12
           /\ tx.productos[Row.sku].nombre = Row.nombre

\* the stock_maximo the record brings to an insert
MaximoDe(row) ==
    IF "stock_maximo" \in Cols THEN row.stock_maximo ELSE 4 * row.stock_minimo

\* C4: the inventory upsert: for a SKU without inventory row the row is
\* created with the supplied stock_maximo, or 4 times the record's
\* stock_minimo when none is supplied; for a SKU with a row, stock_actual,
\* stock_minimo and ubicacion become the record's and stock_maximo stays.
C4_InventoryUpsert ==
    \A i \in FilasConInventario :
        LET row == transformed_df.rows[i]
            inv == tx.inventario[row.sku]
        IN  /\ inv.stock_actual = row.stock_actual
            /\ inv.stock_minimo = row.stock_minimo
            /\ inv.ubicacion = row.ubicacion
            /\ IF row.sku \in DOMAIN db_inicio.inventario
               THEN inv.stock_maximo = db_inicio.inventario[row.sku].stock_maximo
               ELSE inv.stock_maximo = MaximoDe(row)

\* a frame without stock_maximo column is written: one record over a stored
\* inventory row with another stock_minimo, whose stock_maximo is not 4 times
\* the record's stock_minimo and has stayed; another record into a new row,
\* with 4 times its stock_minimo
C4_Witness ==
    /\ pc = "load_commit"
    /\ "stock_maximo" \notin Cols
    /\ \E i \in FilasConInventario :
          LET row == transformed_df.rows[i]
          IN  /\ row.sku \in DOMAIN db_inicio.inventario
              /\ db_inicio.inventario[row.sku].stock_minimo # row.stock_minimo
              /\ tx.inventario[row.sku].stock_maximo # 4 * row.stock_minimo
              /\ tx.inventario[row.sku].stock_minimo = row.stock_minimo
    /\ \E i \in FilasConInventario :
          LET row == transformed_df.rows[i]
          IN  /\ row.sku \notin DOMAIN db_inicio.inventario
              /\ tx.inventario[row.sku].stock_maximo = 4 * row.stock_minimo

OrdenFases == <<"connect", "extract", "transform", "load", "report">>

\* the phases a run has entered when it stands at pc
FasesEn(p) ==
    IF p = "inicio" THEN {0}
    ELSE IF p = "extract" THEN {1}
    ELSE IF p = "transform" THEN {2}
    ELSE IF p = "load_lookup" THEN {3}
    ELSE IF p \in {"load_producto", "load_inventario", "load_commit", "load_except",
                   "report"} THEN {4}
    ELSE 1..5

\* C5: the phases run only in the order connect, extract, transform, load,
\* report; a failed connect, extract, transform or load ends the run there:
\* no later phase is entered, no store write follows a failed connect,
\* extract or transform, no report follows a failed load, and the run returns
\* False.
C5_PhaseOrder ==
    /\ fases = SubSeq(OrdenFases, 1, Len(fases))
    /\ Len(fases) \in FasesEn(pc)
    /\ pc = "report" => success = "True"
    /\ pc \in {"finally", "fin"} =>
          /\ Len(fases) = 1 <=> (pc = "fin" /\ conn # "open" /\ raw_df = NoneObj
                                 /\ <<"ERROR", "conectando", <<>> >> \in log)
          /\ Len(fases) = 1 => resultado = "False" /\ db = db_inicio
          /\ Len(fases) = 2 <=> (Len(fases) > 1 /\ raw_df = NoneObj)
          /\ Len(fases) = 2 => resultado = "False" /\ db = db_inicio
          /\ Len(fases) = 3 <=> (raw_df # NoneObj /\ transformed_df = NoneObj)
          /\ Len(fases) = 3 => resultado = "False" /\ db = db_inicio
          /\ Len(fases) = 4 <=> (transformed_df # NoneObj /\ success # "True")
          /\ Len(fases) = 4 => resultado = "False" /\ reporte = NoneObj
          /\ Len(fases) = 5 <=> success = "True"
          /\ Len(fases) = 5 => resultado = "True"

\* a run has ended after a failed load without entering the report
C5_Witness ==
    /\ pc = "fin"
    /\ fases = <<"connect", "extract", "transform", "load">>
    /\ success = "False"
    /\ resultado = "False"

\* C6: in every run that opened the connection, the connection is closed
\* when the run returns, on every exit path, and it is open for as long as
\* the run has store operations ahead.
C6_ConnectionReleased ==
    /\ (pc = "fin" /\ Len(fases) >= 2) => conn = "closed"
    /\ pc \in {"extract", "transform", "load_lookup", "load_producto",
               "load_inventario", "load_commit", "load_except", "report",
               "finally"} => conn = "open"
    /\ conn = "closed" => pc = "fin"

\* a run has returned with the connection closed after a rollback that raised
C6_Witness ==
    /\ pc = "fin"
    /\ conn = "closed"
    /\ <<"ERROR", "error_critico", <<>> >> \in log
    /\ <<"INFO", "conexion_cerrada", <<>> >> \in log

\* C9 (as claimed): a record whose category (supplier) name is no key of the
\* mapping is written with id 1 and a warning is logged, without failing the
\* load; a record whose name is a key is written with the mapped id.
C9_LookupFallback ==
    \A i \in FilasConProducto :
        LET row == transformed_df.rows[i]
            p == tx.productos[row.sku]
        IN  row.sku \notin DOMAIN db_inicio.productos =>
                /\ IF row.categoria \in DOMAIN categorias_map
                   THEN p.categoria_id = categorias_map[row.categoria]
                   ELSE /\ p.categoria_id = 1
                        /\ <<"WARNING", "categoria_no_encontrada",
                             <<row.sku, row.categoria>> >> \in log
                /\ IF row.proveedor \in DOMAIN proveedores_map
                   THEN p.proveedor_id = proveedores_map[row.proveedor]
                   ELSE /\ p.proveedor_id = 1
                        /\ <<"WARNING", "proveedor_no_encontrado",
                             <<row.sku, row.proveedor>> >> \in log

\* C10 (as claimed): the two counters tell inserted from updated records: a
\* second load in a row of the same batch reports every record as updated and
\* none as new; a first load into an empty store reports every record as new
\* and none as updated.
C10_Counters ==
    /\ SegundaCargaIdentica =>
          /\ productos_procesados = 0
          /\ productos_actualizados = Len(transformed_df.rows)
    /\ (CargaOk /\ db_inicio = AlmacenVacio) =>
          /\ productos_procesados = Len(transformed_df.rows)
          /\ productos_actualizados = 0

(***************************************************************************)
(* Properties of the validation, the report and the transaction.           *)
(***************************************************************************)
\* the elements of a sequence
Elementos(seq) == {seq[i] : i \in 1..Len(seq)}

\* FASE 2 has run in this run
TransformHecho == Len(fases) >= 3

\* C11 (as claimed): when required columns are absent from the input, the
\* transform fails with an error that names exactly the absent required
\* columns (also when sku is among them, and when several are absent),
\* yields no frame, and the load is never entered: no statement reaches the
\* store and the store is unchanged.
C11_MissingField ==
    (TransformHecho /\ Elementos(required_columns) \ raw_df.columns # {}) =>
        /\ transformed_df = NoneObj
        /\ \E e \in log :
              /\ e[1] = "ERROR"
              /\ e[2] = "transformando"
              /\ Elementos(e[3][2]) = Elementos(required_columns) \ raw_df.columns
        /\ "load" \notin Elementos(fases)
        /\ sentencias = <<>>
        /\ db = db_inicio
        /\ resultado = "False"

\* the report query raised in this run
ReporteFallo == <<"ERROR", "generando_reporte", <<>> >> \in log

\* every record of the batch is in the committed store
LoteEnAlmacen ==
    \A i \in 1..Len(transformed_df.rows) :
        LET row == transformed_df.rows[i]
        IN  /\ row.sku \in DOMAIN db.productos
            /\ row.sku \in DOMAIN db.inventario
            /\ db.productos[row.sku].nombre = row.nombre
            /\ db.productos[row.sku].precio_venta = row.precio_venta
            /\ db.inventario[row.sku].stock_actual = row.stock_actual
            /\ db.inventario[row.sku].updated_at = corrida

\* C12: a failed report is no failure of the run: when the load succeeded and
\* the report query raises, generate_stock_report yields None, the committed
\* rows stay in the store and the run returns True; whenever the load was
\* entered, the run returns what the load returned.
C12_ReportFailure ==
    (pc \in {"finally", "fin"} /\ "load" \in Elementos(fases)) =>
        /\ resultado = "True" <=> success = "True"
        /\ resultado = "False" <=> success # "True"
        /\ ReporteFallo =>
              /\ success = "True"
              /\ reporte = NoneObj
              /\ resultado = "True"
              /\ LoteEnAlmacen

\* a run has returned True after a load that changed the store and a report
\* query that raised
C12_Witness ==
    /\ pc = "fin"
    /\ ReporteFallo
    /\ resultado = "True"
    /\ reporte = NoneObj
    /\ db # db_inicio
    /\ Len(transformed_df.rows) >= 2

\* the SKUs the report must list: active products with an inventory row whose
\* stock_actual is at most its stock_minimo
Califican ==
    { k \in DOMAIN db.productos :
        /\ k \in DOMAIN db.inventario
        /\ db.productos[k].activo
        /\ db.inventario[k].stock_actual <= db.inventario[k].stock_minimo }

\* the report has answered in this run and the run has gone past it
ReporteHecho == pc \in {"finally", "fin"} /\ reporte # NoneObj

\* C13: the report lists exactly the active products that have an inventory
\* row with stock_actual <= stock_minimo, each once, with the stored values;
\* a row's estado is SIN_STOCK when its stock is 0 and CRITICO otherwise,
\* never a third value; with no such product the list is empty and no error;
\* the query is the run's last statement and leaves the store as committed.
C13_ReportContents ==
    ReporteHecho =>
        LET filas == reporte.rows
        IN  /\ {filas[i].sku : i \in 1..Len(filas)} = Califican
            /\ Len(filas) = Cardinality(Califican)
            /\ \A i \in 1..Len(filas) :
                  LET f == filas[i]
                  IN  /\ f.nombre = db.productos[f.sku].nombre
                      /\ f.stock_actual = db.inventario[f.sku].stock_actual
                      /\ f.stock_minimo = db.inventario[f.sku].stock_minimo
                      /\ f.ubicacion = db.inventario[f.sku].ubicacion
                      /\ f.estado = (IF f.stock_actual = 0 THEN "SIN_STOCK" ELSE "CRITICO")
            /\ Califican = {} => (filas = <<>> /\ ~ReporteFallo)
            /\ sentencias[Len(sentencias)] = <<"select_reporte", 0>>
            /\ sentencias[Len(sentencias) - 1] = <<"commit", 0>>
            /\ tx = db
            /\ LoteEnAlmacen

\* a report with a SIN_STOCK and a CRITICO row, while the store holds an
\* inactive product at or below its minimum and a product without inventory
\* row, both left out
C13_Witness ==
    /\ ReporteHecho
    /\ \E i, j \in 1..Len(reporte.rows) :
          /\ reporte.rows[i].estado = "SIN_STOCK"
          /\ reporte.rows[j].estado = "CRITICO"
    /\ \E k \in DOMAIN db.productos \cap DOMAIN db.inventario :
          /\ ~db.productos[k].activo
          /\ db.inventario[k].stock_actual <= db.inventario[k].stock_minimo
    /\ \E k \in DOMAIN db.productos : k \notin DOMAIN db.inventario

\* C14: in the report every row has a stock_actual at most that of the next
\* row, and with equal stock_actual its nombre is not alphabetically after
\* the next row's.
C14_ReportOrder ==
    ReporteHecho =>
        \A i \in 1..(Len(reporte.rows) - 1) :
            LET a == reporte.rows[i]
                b == reporte.rows[i + 1]
            IN  /\ a.stock_actual <= b.stock_actual
                /\ a.stock_actual = b.stock_actual => Rango(a.nombre) <= Rango(b.nombre)

\* a report with two adjacent rows of equal stock and different names, and a
\* third row with more stock
C14_Witness ==
    /\ ReporteHecho
    /\ Len(reporte.rows) >= 3
    /\ \E i \in 1..(Len(reporte.rows) - 1) :
          /\ reporte.rows[i].stock_actual = reporte.rows[i + 1].stock_actual
          /\ reporte.rows[i].nombre # reporte.rows[i + 1].nombre
    /\ \E i \in 1..(Len(reporte.rows) - 1) :
          reporte.rows[i].stock_actual < reporte.rows[i + 1].stock_actual

\* the rows of the input beyond one per SKU
Sobrantes(filas) == Len(filas) - Cardinality({filas[i].sku : i \in 1..Len(filas)})

\* C15: the transform counts the rows it drops as duplicates and logs that
\* count, which is the number of input rows minus the number of distinct
\* SKUs (1 for two rows sharing AP001), and the output has exactly one row
\* of each SKU of the input.
C15_DroppedCountLogged ==
    (transformed_df # NoneObj /\ Sobrantes(raw_df.rows) > 0) =>
        /\ \A i \in 1..Len(raw_df.rows) :
              Cardinality({k \in 1..Len(transformed_df.rows) :
                             transformed_df.rows[k].sku = raw_df.rows[i].sku}) = 1
        /\ Len(raw_df.rows) - Len(transformed_df.rows) = Sobrantes(raw_df.rows)
        /\ \E e \in log :
              /\ e[2] = "skus_duplicados"
              /\ e[3] = <<Sobrantes(raw_df.rows)>>

\* C16: every output record with a non-zero purchase price carries the margin
\* (sale - purchase) / purchase * 100 rounded to two decimals, and a record
\* whose purchase price is 0 is not passed on to the load with an ordinary
\* margin value: either it is absent from the output or the log flags it.
C16_ProfitMargin ==
    transformed_df # NoneObj =>
        \A k \in 1..Len(transformed_df.rows) :
            LET fila == transformed_df.rows[k]
            IN  /\ fila.precio_compra > 0 =>
                      /\ fila.margen_ganancia \in Int
                      /\ 2 * fila.margen_ganancia * fila.precio_compra
                             - 20000 * (fila.precio_venta - fila.precio_compra)
                           \in (-fila.precio_compra)..fila.precio_compra
                /\ fila.precio_compra = 0 =>
                      \E e \in log : /\ e[1] \in {"WARNING", "ERROR"}
                                     /\ e[2] \in {"margen_indefinido", "transformando"}

\* the positions of the statements of one kind executed in the current run
Posiciones(clase) == {i \in 1..Len(sentencias) : sentencias[i][1] = clase}
PosUpserts == Posiciones("producto") \cup Posiciones("inventario")

\* load_to_database has returned False in the current run
CargaFallida == success = "False"

\* C17: within one load no commit happens before the product and the
\* inventory upsert of every record of the batch; a successful load commits
\* exactly once, after the last upsert, and never rolls back; a failed load
\* commits nothing and rolls back exactly once; the two lookup tables are read
\* once each, before the first record is written.
C17_SingleCommit ==
    /\ Cardinality(Posiciones("commit")) <= 1
    /\ \A c \in Posiciones("commit") :
          /\ transformed_df # NoneObj
          /\ \A k \in 1..Len(transformed_df.rows) :
                \E i \in 1..c, j \in 1..c :
                    /\ i < j /\ j < c
                    /\ sentencias[i] = <<"producto", k>>
                    /\ sentencias[j] = <<"inventario", k>>
          /\ \A u \in PosUpserts : u < c
    /\ success = "True" =>
          /\ Cardinality(Posiciones("commit")) = 1
          /\ Posiciones("rollback") = {}
    /\ CargaFallida =>
          /\ Posiciones("commit") = {}
          /\ Cardinality(Posiciones("rollback")) = 1
    /\ Cardinality(Posiciones("select_categorias")) <= 1
    /\ Cardinality(Posiciones("select_proveedores")) <= 1
    /\ PosUpserts # {} =>
          /\ sentencias[1] = <<"select_categorias", 0>>
          /\ sentencias[2] = <<"select_proveedores", 0>>

\* the input record i has a sale price not above its purchase price
PrecioAnomalo(fila) == fila.precio_venta <= fila.precio_compra

\* the first input row of each SKU whose prices are anomalous
AnomalasEntrada ==
    {i \in 1..Len(raw_df.rows) :
        /\ PrecioAnomalo(raw_df.rows[i])
        /\ \A j \in 1..(i - 1) : raw_df.rows[j].sku # raw_df.rows[i].sku}

\* C18: a record whose sale price is at most its purchase price is kept in
\* the transform output with its margin and stock level computed and a
\* warning with the number of such records is logged; the transform fails
\* only for a missing required column, never for prices; and once the load
\* has committed, the record is in products with its prices and in inventory
\* like every other record of the batch.
C18_PriceAnomalyKept ==
    /\ (TransformHecho /\ Elementos(required_columns) \subseteq raw_df.columns) =>
          /\ transformed_df # NoneObj
          /\ \A i \in AnomalasEntrada :
                \E k \in 1..Len(transformed_df.rows) :
                    LET t == transformed_df.rows[k]
                    IN  /\ \A c \in Columnas : t[c] = raw_df.rows[i][c]
                        /\ t.nivel_stock \in NivelesStock
                        /\ t.margen_ganancia \in Int => t.margen_ganancia <= 0
                        /\ t.margen_ganancia \notin Int => t.precio_compra = 0
          /\ AnomalasEntrada # {} <=>
                <<"WARNING", "precios_invalidos", <<Cardinality(AnomalasEntrada)>> >> \in log
          /\ \A e \in log : e[2] = "transformando" => e[1] = "INFO"
    /\ (CargaOk /\ transformed_df # NoneObj) =>
          \A k \in 1..Len(transformed_df.rows) :
              LET t == transformed_df.rows[k]
              IN  PrecioAnomalo(t) =>
                      /\ t.sku \in DOMAIN db.productos
                      /\ db.productos[t.sku].precio_compra = t.precio_compra
                      /\ db.productos[t.sku].precio_venta = t.precio_venta
                      /\ db.productos[t.sku].nombre = t.nombre
                      /\ t.sku \in DOMAIN db.inventario
                      /\ db.inventario[t.sku].stock_actual = t.stock_actual

\* a batch holding a record sold below its purchase price was committed, the
\* warning was logged and the record is in the store
C18_Witness ==
    /\ CargaOk
    /\ transformed_df # NoneObj
    /\ <<"WARNING", "precios_invalidos", <<1>> >> \in log
    /\ \E k \in 1..Len(transformed_df.rows) :
          /\ transformed_df.rows[k].precio_venta < transformed_df.rows[k].precio_compra
          /\ transformed_df.rows[k].sku \in DOMAIN db.productos
          /\ db.productos[transformed_df.rows[k].sku].precio_venta
                 = transformed_df.rows[k].precio_venta

\* every inventory row of the store references a product row
Referenciado(almacen) == DOMAIN almacen.inventario \subseteq DOMAIN almacen.productos

\* C19: every inventory row references an existing product, in the committed
\* store and in what the connection sees, at every point of every run; after
\* a committed load every SKU of the batch has its product row and its
\* inventory row (the tables hold one row per SKU); and the inventory
\* statement of a record is executed only after the product statement of the
\* same record.
C19_Pairing ==
    /\ Referenciado(db)
    /\ Referenciado(tx)
    /\ (CargaOk /\ transformed_df # NoneObj) =>
          \A k \in 1..Len(transformed_df.rows) :
              /\ transformed_df.rows[k].sku \in DOMAIN db.productos
              /\ transformed_df.rows[k].sku \in DOMAIN db.inventario
              /\ Cardinality({q \in 1..Len(transformed_df.rows) :
                                transformed_df.rows[q].sku = transformed_df.rows[k].sku}) = 1
    /\ \A j \in Posiciones("inventario") :
          \E i \in 1..(j - 1) : sentencias[i] = <<"producto", sentencias[j][2]>>

\* a second run committed a batch of two records, one of them a SKU the
\* store did not hold, and both are paired in the store
C19_Witness ==
    /\ CargaOk
    /\ corrida = 2
    /\ transformed_df # NoneObj
    /\ Len(transformed_df.rows) = 2
    /\ \E k \in 1..2 : transformed_df.rows[k].sku \notin DOMAIN db_inicio.productos
    /\ \A k \in 1..2 : transformed_df.rows[k].sku \in DOMAIN db.inventario
    /\ Posiciones("inventario") # {}

\* the SKUs of the batch of the current run
SkusDelLote ==
    IF transformed_df = NoneObj THEN {}
    ELSE {transformed_df.rows[k].sku : k \in 1..Len(transformed_df.rows)}

\* every row of a table of the earlier store is still in the later one
Conserva(antes, despues) ==
    /\ DOMAIN antes.productos \subseteq DOMAIN despues.productos
    /\ DOMAIN antes.inventario \subseteq DOMAIN despues.inventario

\* the rows of SKUs outside the batch are the same in both stores
Intactas(antes, despues) ==
    /\ \A s \in DOMAIN antes.productos \ SkusDelLote :
          despues.productos[s] = antes.productos[s]
    /\ \A s \in DOMAIN antes.inventario \ SkusDelLote :
          despues.inventario[s] = antes.inventario[s]

\* C20: the pipeline removes nothing: every SKU the store held when the run
\* started, and every SKU it held after the last load an earlier run
\* committed, is still in products and in inventory, in the committed store
\* and in what the connection sees; and a product or inventory row whose SKU
\* is not in the batch of the run is exactly what it was when the run started.
C20_NothingRemoved ==
    /\ Conserva(db_inicio, db)
    /\ Conserva(db_inicio, tx)
    /\ carga_previa # NoneObj => Conserva(carga_previa.db, db)
    /\ Intactas(db_inicio, db)
    /\ Intactas(db_inicio, tx)

\* a second run committed a batch over the store an earlier run had loaded:
\* a SKU of the earlier load that is not in the batch is still there, and a
\* row of the batch was written
C20_Witness ==
    /\ CargaOk
    /\ corrida = 2
    /\ carga_previa # NoneObj
    /\ db # db_inicio
    /\ \E s \in DOMAIN carga_previa.db.inventario \ SkusDelLote :
          /\ s \in {carga_previa.df.rows[k].sku : k \in 1..Len(carga_previa.df.rows)}
          /\ db.inventario[s] = carga_previa.db.inventario[s]
          /\ db.productos[s] = carga_previa.db.productos[s]

====
